---- MODULE Spec2Model ----
(***************************************************************************)
(* Alerting core of tenderduty (src/alert.go): the per-destination alert   *)
(* deduplication registry (shouldNotify and the notify<Sink> wrappers),    *)
(* the dashboard alarm registry (Config.alert, getAlarms) and the per-chain *)
(* hysteresis loop (ChainConfig.watch).                                     *)
(***************************************************************************)
EXTENDS Integers, Sequences, FiniteSets, TLC

VARIABLES
    td,             \* the global Config: sink switches and the chains' settings
    sentAlarms,     \* the three dedup maps sentPdAlarms, sentTgAlarms, sentDAlarms
    currentAlarms,  \* dashboard registry: chain -> set of message texts
    alertChan,      \* c.alertChan, the outbound queue of *alertMsg
    pc,             \* position of the watch goroutine of WatchChain
    noNodes,        \* watch: local noNodes
    lastBlockAlarm, \* watch: cc.lastBlockAlarm
    missedAlarm,    \* watch: local missedAlarm
    pctAlarm,       \* watch: local pctAlarm
    nodeAlarms,     \* watch: local nodeAlarms, node url -> bool
    activeAlerts,   \* watch: cc.activeAlerts
    nodeIdx,        \* watch: index of the range loop over cc.Nodes
    hist,           \* history: per (destination, message) the shouldNotify calls made
    lastCall,       \* history: the most recent shouldNotify call
    lastTrigger,    \* history: (chain, message) whose latest alert call had resolved=false
    lastAlert,      \* history: the most recent alert call
    lastDispatch,   \* history: the most recent message taken off alertChan
    obs,            \* history: what the latest step of watch sampled and called
    scen,           \* history: progress of the consecutive-miss scenario
    gor,            \* the goroutines that call shouldNotify or a notify<Sink> wrapper
    notifyMux,      \* notifyMux: the goroutine holding it, or NoHolder
    keyLog,         \* history: the (destination, message) keys whose delivery failed
    lastGet,        \* history: the most recent getAlarms call
    order           \* history: tick number and place in the tick of the alert calls

alertVars == <<currentAlarms, alertChan, lastTrigger, lastAlert>>
watchVars == <<pc, noNodes, lastBlockAlarm, missedAlarm, pctAlarm, nodeAlarms,
               activeAlerts, nodeIdx, obs, scen>>
callVars == <<gor, notifyMux, keyLog, lastGet>>
vars == <<td, sentAlarms, currentAlarms, alertChan, pc, noNodes, lastBlockAlarm,
          missedAlarm, pctAlarm, nodeAlarms, activeAlerts, nodeIdx, hist, lastCall,
          lastTrigger, lastAlert, lastDispatch, obs, scen, gor, notifyMux,
          keyLog, lastGet, order>>

-----------------------------------------------------------------------------
(* Bounds of the model *)

\* number of shouldNotify calls explored by the direct-call specification
MaxCalls == 5

\* capacity of alertChan
QueueCap == 1

\* largest value sampled for cc.statConsecutiveMiss
MaxMiss == 7

\* ticks of the steady-state loop that the order of the calls is recorded for
MaxTicks == 2

-----------------------------------------------------------------------------
(* notifyDest and the dedup registry, alert.go:37-50 *)

pd == 0
tg == 1
di == 2
notifyDest == {pd, tg, di}

\* message texts used by the direct-call specifications
TestMessages ==
    {<<"stalled: have not seen a new block on %s in %d minutes", "chainA", "10">>,
     <<"no RPC endpoints are working for %s", "chainA", "">>}

\* the message text the goroutines hand to the wrappers
SinkMessages == {<<"no RPC endpoints are working for %s", "chainA", "">>}

NoCall == [dest |-> -1]

\* the three package-level maps; a Go map[string]bool that only ever stores
\* true is the set of its keys
EmptyRegistry == [sentPdAlarms |-> {}, sentTgAlarms |-> {}, sentDAlarms |-> {}]

\* a seeded bug: the Telegram case selects PagerDuty's map
whichMap_TgUsesPd(dest) ==
    CASE dest = pd -> "sentPdAlarms"
      [] dest = tg -> "sentPdAlarms"
      [] dest = di -> "sentDAlarms"

\* the switch of shouldNotify: which map the call reads and mutates
whichMap(dest) ==
    CASE dest = pd -> "sentPdAlarms"
      [] dest = tg -> "sentTgAlarms"
      [] dest = di -> "sentDAlarms"

\* return value of shouldNotify on registry s
shouldNotifyRet(s, msg, dest) ==
    IF msg.message \in s[whichMap(dest)] /\ ~msg.resolved
    THEN FALSE
    ELSE TRUE

\* a seeded bug: the final whichMap[msg.message] = true is lost
shouldNotifyMap_NoMark(s, msg, dest) ==
    IF msg.message \in s[whichMap(dest)] /\ ~msg.resolved
    THEN s
    ELSE IF msg.message \in s[whichMap(dest)] /\ msg.resolved
         THEN [s EXCEPT ![whichMap(dest)] = @ \ {msg.message}]
         ELSE s

\* registry after shouldNotify(msg, dest) on registry s
shouldNotifyMap(s, msg, dest) ==
    IF msg.message \in s[whichMap(dest)] /\ ~msg.resolved
    THEN s
    ELSE IF msg.message \in s[whichMap(dest)] /\ msg.resolved
         THEN [s EXCEPT ![whichMap(dest)] = @ \ {msg.message}]
         ELSE [s EXCEPT ![whichMap(dest)] = @ \cup {msg.message}]

\* the map that belongs to a destination, as the package declares them
DestMap(s, dest) ==
    CASE dest = pd -> s.sentPdAlarms
      [] dest = tg -> s.sentTgAlarms
      [] dest = di -> s.sentDAlarms

NumCalls == LET S == notifyDest \X TestMessages
                RECURSIVE Sum(_)
                Sum(T) == IF T = {} THEN 0
                          ELSE LET k == CHOOSE k \in T : TRUE
                               IN Len(hist[k]) + Sum(T \ {k})
            IN Sum(S)

\* one call shouldNotify(msg, dest), made under notifyMux
shouldNotify(msg, dest) ==
    /\ sentAlarms' = shouldNotifyMap(sentAlarms, msg, dest)
    /\ lastCall' = [dest |-> dest, message |-> msg.message, resolved |-> msg.resolved,
                    ret |-> shouldNotifyRet(sentAlarms, msg, dest),
                    before |-> sentAlarms]
    /\ hist' = [hist EXCEPT ![<<dest, msg.message>>] =
                   Append(@, [resolved |-> msg.resolved,
                              ret |-> shouldNotifyRet(sentAlarms, msg, dest),
                              marked |-> msg.message \in DestMap(sentAlarms', dest)])]

-----------------------------------------------------------------------------
(* Configuration read by alert and watch *)

Chains == {"chainA", "chainB"}
WatchChain == "chainA"

\* cc.Alerts of a chain; sinks is the set of destinations the chain alerts on
mkAlerts(sinks, noServers, stalled, consecutive, percentage) ==
    [PagerdutyAlerts |-> pd \in sinks, DiscordAlerts |-> di \in sinks,
     TelegramAlerts |-> tg \in sinks,
     AlertIfNoServers |-> noServers,
     StalledAlerts |-> stalled, Stalled |-> 10,
     ConsecutiveAlerts |-> consecutive, ConsecutiveMissed |-> 5,
     PercentageAlerts |-> percentage, Window |-> 20]

mkNode(url, alertIfDown) == [Url |-> url, AlertIfDown |-> alertIfDown]

mkChain(chainId, alerts, nodes) ==
    [ChainId |-> chainId, ValAddress |-> "valoper1", Alerts |-> alerts, Nodes |-> nodes]

\* the Config: sinks is the set of destinations enabled globally
mkConfig(sinks, alerts, nodes) ==
    [Pagerduty |-> [Enabled |-> pd \in sinks],
     Discord |-> [Enabled |-> di \in sinks],
     Telegram |-> [Enabled |-> tg \in sinks],
     NodeDownMin |-> 10,
     HideLogs |-> FALSE,
     Chains |-> [c \in Chains |-> mkChain(c, alerts, nodes)]]

\* every alarm kind on, two nodes, no sink enabled
FullConfig ==
    mkConfig({}, mkAlerts({}, TRUE, TRUE, TRUE, TRUE),
             <<mkNode("http://node1:26657", TRUE), mkNode("http://node2:26657", TRUE)>>)

\* only consecutive-miss alerts on (threshold 5), one node without alert-on-down
ScenarioConfig ==
    mkConfig({}, mkAlerts({}, FALSE, FALSE, TRUE, FALSE),
             <<mkNode("http://node1:26657", FALSE)>>)

\* PagerDuty enabled; consecutive, percentage and node-down alerts on
DeliverConfig ==
    mkConfig({pd}, mkAlerts({pd, tg}, FALSE, FALSE, TRUE, TRUE),
             <<mkNode("http://node1:26657", TRUE)>>)

\* all three sinks enabled
SinksConfig ==
    mkConfig({pd, tg, di}, mkAlerts({pd, tg, di}, TRUE, TRUE, TRUE, TRUE), << >>)

\* PagerDuty and Discord enabled globally, the chains alert on PagerDuty and Telegram
MixedConfig ==
    mkConfig({pd, di}, mkAlerts({pd, tg}, TRUE, TRUE, TRUE, TRUE), << >>)

\* hide_logs set, otherwise as FullConfig
HiddenConfig == [FullConfig EXCEPT !.HideLogs = TRUE]

-----------------------------------------------------------------------------
(* Message texts: the format string with the values substituted into it. The
   moniker is the one established by the wait loop. *)

noRPCMsg(cc) == <<"no RPC endpoints are working for %s", cc.ChainId, "">>
stalledMsg(cc) ==
    <<"stalled: have not seen a new block on %s in %d minutes", cc.ChainId,
      ToString(cc.Alerts.Stalled)>>
consecutiveMsg(cc) ==
    <<"%s has missed %d blocks on %s", cc.ChainId, ToString(cc.Alerts.ConsecutiveMissed)>>
percentMsg(cc) ==
    <<"%s has missed > %d%% of the slashing window's blocks on %s", cc.ChainId,
      ToString(cc.Alerts.Window)>>
nodeDownMsg(cc, node) ==
    <<"RPC node %s has been down for > %d minutes on %s", cc.ChainId, node.Url>>

-----------------------------------------------------------------------------
(* Dashboard registry and the alert factory, alert.go:211-268 *)

NilId == "<nil>"
NoAlert == [chain |-> ""]
NoDispatch == [called |-> {}, delivered |-> {}]

\* make(map[string]map[string]bool): no chain has an entry
EmptyAlarms == [c \in Chains |-> [nil |-> TRUE, keys |-> {}]]

\* the alertMsg that alert builds (credentials and mentions are carried along
\* unread by this file's logic and are left out)
alertMsgOf(c, chainName, message, severity, resolved, id) ==
    [pd |-> c.Pagerduty.Enabled /\ c.Chains[chainName].Alerts.PagerdutyAlerts,
     disc |-> c.Discord.Enabled /\ c.Chains[chainName].Alerts.DiscordAlerts,
     tg |-> c.Telegram.Enabled /\ c.Chains[chainName].Alerts.TelegramAlerts,
     severity |-> severity,
     resolved |-> resolved,
     chain |-> chainName,
     message |-> message,
     uniqueId |-> IF id # NilId THEN id ELSE c.Chains[chainName].ValAddress]

\* a seeded bug: a resolution leaves the entry in place
currentAlarmsAfter_NoDelete(ca, chainName, message, resolved) ==
    LET made == IF ca[chainName].nil
                THEN [ca EXCEPT ![chainName] = [nil |-> FALSE, keys |-> {}]]
                ELSE ca
    IN  IF resolved THEN made
        ELSE [made EXCEPT ![chainName].keys = @ \cup {message}]

\* currentAlarms after the registry update of alert
currentAlarmsAfter(ca, chainName, message, resolved) ==
    LET made == IF ca[chainName].nil
                THEN [ca EXCEPT ![chainName] = [nil |-> FALSE, keys |-> {}]]
                ELSE ca
    IN  IF resolved /\ message \in made[chainName].keys
        THEN [made EXCEPT ![chainName].keys = @ \ {message}]
        ELSE IF resolved
             THEN made
             ELSE [made EXCEPT ![chainName].keys = @ \cup {message}]

\* Config.alert: the send on alertChan blocks while the channel is full
alert(chainName, message, severity, resolved, id) ==
    /\ Len(alertChan) < QueueCap
    /\ alertChan' = Append(alertChan,
                           alertMsgOf(td, chainName, message, severity, resolved, id))
    /\ currentAlarms' = currentAlarmsAfter(currentAlarms, chainName, message, resolved)
    /\ lastTrigger' = IF resolved
                      THEN lastTrigger \ {<<chainName, message>>}
                      ELSE lastTrigger \cup {<<chainName, message>>}
    /\ lastAlert' = [chain |-> chainName, message |-> message, resolved |-> resolved,
                     before |-> currentAlarms]

NoGet == [chain |-> ""]

\* the orders in which a range over a map with the keys S can visit them
Orderings(S) ==
    {s \in [1..Cardinality(S) -> S] : \A i, j \in DOMAIN s : i # j => s[i] # s[j]}

\* one line of the result of getAlarms
alarmLine(k) == <<"\\U0001F6A8 ", k, "\n">>

\* a seeded bug: the hide-logs flag is not consulted
getAlarmsLines_IgnoreHide(c, ca, chain) ==
    IF ca[chain].nil THEN {} ELSE {alarmLine(k) : k \in ca[chain].keys}

\* the lines getAlarms concatenates; none stands for the empty string
getAlarmsLines(c, ca, chain) ==
    IF c.HideLogs \/ ca[chain].nil
    THEN {}
    ELSE {alarmLine(k) : k \in ca[chain].keys}

\* getAlarms: the result is the lines in the order the range visits the map; it
\* holds the read lock only
getAlarms(chain) ==
    /\ UNCHANGED currentAlarms
    /\ \E result \in Orderings(getAlarmsLines(td, currentAlarms, chain)) :
           lastGet' = [chain |-> chain,
                       result |-> result,
                       keys |-> IF currentAlarms[chain].nil THEN {}
                                ELSE currentAlarms[chain].keys,
                       changed |-> currentAlarms' # currentAlarms]

-----------------------------------------------------------------------------
(* The per-sink wrappers, alert.go:82-209: the registry they leave and whether
   they go on to the delivery call *)

notifyPagerduty(s, msg) ==
    IF ~msg.pd THEN [reg |-> s, deliver |-> FALSE]
    ELSE IF ~shouldNotifyRet(s, msg, pd)
         THEN [reg |-> shouldNotifyMap(s, msg, pd), deliver |-> FALSE]
         ELSE [reg |-> shouldNotifyMap(s, msg, pd), deliver |-> TRUE]

notifyDiscord(s, msg) ==
    IF ~msg.disc THEN [reg |-> s, deliver |-> FALSE]
    ELSE IF ~shouldNotifyRet(s, msg, di)
         THEN [reg |-> shouldNotifyMap(s, msg, di), deliver |-> FALSE]
         ELSE [reg |-> shouldNotifyMap(s, msg, di), deliver |-> TRUE]

notifyTg(s, msg) ==
    IF ~msg.tg THEN [reg |-> s, deliver |-> FALSE]
    ELSE IF ~shouldNotifyRet(s, msg, tg)
         THEN [reg |-> shouldNotifyMap(s, msg, tg), deliver |-> FALSE]
         ELSE [reg |-> shouldNotifyMap(s, msg, tg), deliver |-> TRUE]

\* the consumer of alertChan: takes the oldest message and hands it to the
\* three wrappers in turn
Dispatch ==
    /\ pc # "panic"
    /\ alertChan # << >>
    /\ LET msg == Head(alertChan)
           r1 == notifyPagerduty(sentAlarms, msg)
           r2 == notifyDiscord(r1.reg, msg)
           r3 == notifyTg(r2.reg, msg)
       IN  /\ sentAlarms' = r3.reg
           /\ lastDispatch' =
                  [msg |-> msg,
                   called |-> {d \in notifyDest :
                                 \/ d = pd /\ msg.pd
                                 \/ d = di /\ msg.disc
                                 \/ d = tg /\ msg.tg},
                   delivered |-> {d \in notifyDest :
                                    \/ d = pd /\ r1.deliver
                                    \/ d = di /\ r2.deliver
                                    \/ d = tg /\ r3.deliver}]
    /\ alertChan' = Tail(alertChan)
    /\ order' = [order EXCEPT !.chan = IF @ = << >> THEN @ ELSE Tail(@)]
    /\ UNCHANGED <<td, currentAlarms, lastTrigger, lastAlert, hist, lastCall>>
    /\ UNCHANGED watchVars
    /\ UNCHANGED callVars

-----------------------------------------------------------------------------
(* Direct callers *)

\* a caller invokes shouldNotify with any message, resolved flag and destination
CallShouldNotify ==
    /\ NumCalls < MaxCalls
    /\ \E m \in TestMessages, r \in BOOLEAN, d \in notifyDest :
           shouldNotify([message |-> m, resolved |-> r], d)
    /\ UNCHANGED <<td, lastDispatch, order>>
    /\ UNCHANGED alertVars
    /\ UNCHANGED watchVars
    /\ UNCHANGED callVars

\* a caller invokes alert with any chain, message, resolved flag and id
CallAlert ==
    /\ \E c \in Chains, m \in TestMessages, r \in BOOLEAN, id \in {NilId, "id"} :
           alert(c, m, "critical", r, id)
    /\ UNCHANGED <<td, sentAlarms, hist, lastCall, lastDispatch, order>>
    /\ UNCHANGED watchVars
    /\ UNCHANGED callVars

\* a caller (the dashboard) invokes getAlarms with any chain
CallGetAlarms ==
    /\ \E c \in Chains : getAlarms(c)
    /\ UNCHANGED <<td, sentAlarms, hist, lastCall, lastDispatch, order>>
    /\ UNCHANGED <<alertChan, lastTrigger, lastAlert>>
    /\ UNCHANGED watchVars
    /\ UNCHANGED <<gor, notifyMux, keyLog>>

-----------------------------------------------------------------------------
(* ChainConfig.watch, alert.go:272-442. The goroutine reads statistics that
   other goroutines write; every read is a value drawn at the step that makes
   it. Times are read relative to the clock: a timestamp is the zero time,
   within the configured duration, or older than it. *)

ValInfoStates == {"nil", "not connected", "ok"}
BlockTimes == {"zero", "recent", "stalled"}
DownSinces == {"zero", "recent", "long"}
\* <<valInfo.Missed, valInfo.Window>>
PctSamples == {<<0, 0>>, <<1, 0>>, <<0, 10>>, <<2, 10>>, <<3, 10>>}

Valcons == "valcons1"

NoCalls == << >>
mkCall(message, resolved, id) ==
    <<[message |-> message, severity |-> "critical", resolved |-> resolved, id |-> id]>>

\* alert.go:305-323
noRPCStep(alarm, cc, ccNoNodes) ==
    IF cc.Alerts.AlertIfNoServers /\ ~alarm /\ ccNoNodes
    THEN [alarm |-> TRUE, active |-> 0, calls |-> mkCall(noRPCMsg(cc), FALSE, Valcons)]
    ELSE IF cc.Alerts.AlertIfNoServers /\ alarm /\ ~ccNoNodes
         THEN [alarm |-> FALSE, active |-> 0,
               calls |-> mkCall(noRPCMsg(cc), TRUE, Valcons)]
         ELSE [alarm |-> alarm, active |-> 0, calls |-> NoCalls]

\* alert.go:325-346
stalledStep(alarm, cc, lastBlockTime) ==
    IF /\ cc.Alerts.StalledAlerts /\ ~alarm /\ lastBlockTime # "zero"
       /\ lastBlockTime = "stalled"
    THEN [alarm |-> TRUE, active |-> 0, calls |-> mkCall(stalledMsg(cc), FALSE, Valcons)]
    ELSE IF cc.Alerts.StalledAlerts /\ alarm /\ lastBlockTime = "zero"
         THEN [alarm |-> FALSE, active |-> 0,
               calls |-> mkCall(stalledMsg(cc), TRUE, Valcons)]
         ELSE [alarm |-> alarm, active |-> 0, calls |-> NoCalls]

\* a seeded bug: the trigger branch does not look at missedAlarm
consecutiveStep_NoMemory(alarm, cc, statConsecutiveMiss) ==
    IF cc.Alerts.ConsecutiveAlerts /\ statConsecutiveMiss >= cc.Alerts.ConsecutiveMissed
    THEN [alarm |-> TRUE, active |-> 1,
          calls |-> mkCall(consecutiveMsg(cc), FALSE, <<Valcons, "consecutive">>)]
    ELSE IF alarm /\ statConsecutiveMiss < cc.Alerts.ConsecutiveMissed
         THEN [alarm |-> FALSE, active |-> -1,
               calls |-> mkCall(consecutiveMsg(cc), TRUE, <<Valcons, "consecutive">>)]
         ELSE [alarm |-> alarm, active |-> 0, calls |-> NoCalls]

\* alert.go:348-373
consecutiveStep(alarm, cc, statConsecutiveMiss) ==
    IF /\ ~alarm /\ cc.Alerts.ConsecutiveAlerts
       /\ statConsecutiveMiss >= cc.Alerts.ConsecutiveMissed
    THEN [alarm |-> TRUE, active |-> 1,
          calls |-> mkCall(consecutiveMsg(cc), FALSE, <<Valcons, "consecutive">>)]
    ELSE IF alarm /\ statConsecutiveMiss < cc.Alerts.ConsecutiveMissed
         THEN [alarm |-> FALSE, active |-> -1,
               calls |-> mkCall(consecutiveMsg(cc), TRUE, <<Valcons, "consecutive">>)]
         ELSE [alarm |-> alarm, active |-> 0, calls |-> NoCalls]

\* 100*float64(missed)/float64(window) > float64(pct): a zero window gives NaN
\* (missed = 0), which compares false, or +Inf
ratioAbove(missed, window, pct) ==
    IF window = 0 THEN missed > 0 ELSE 100 * missed > pct * window

\* 100*float64(missed)/float64(window) < float64(pct)
ratioBelow(missed, window, pct) ==
    IF window = 0 THEN FALSE ELSE 100 * missed < pct * window

\* a seeded bug: the clear branch leaves activeAlerts alone
percentageStep_NoDecrement(alarm, cc, missed, window) ==
    IF /\ cc.Alerts.PercentageAlerts /\ ~alarm
       /\ ratioAbove(missed, window, cc.Alerts.Window)
    THEN [alarm |-> TRUE, active |-> 1,
          calls |-> mkCall(percentMsg(cc), FALSE, <<Valcons, "percent">>)]
    ELSE IF /\ cc.Alerts.PercentageAlerts /\ alarm
            /\ ratioBelow(missed, window, cc.Alerts.Window)
         THEN [alarm |-> FALSE, active |-> 0,
               calls |-> mkCall(percentMsg(cc), FALSE, <<Valcons, "percent">>)]
         ELSE [alarm |-> alarm, active |-> 0, calls |-> NoCalls]

\* alert.go:375-401; the clear branch passes resolved = false
percentageStep(alarm, cc, missed, window) ==
    IF /\ cc.Alerts.PercentageAlerts /\ ~alarm
       /\ ratioAbove(missed, window, cc.Alerts.Window)
    THEN [alarm |-> TRUE, active |-> 1,
          calls |-> mkCall(percentMsg(cc), FALSE, <<Valcons, "percent">>)]
    ELSE IF /\ cc.Alerts.PercentageAlerts /\ alarm
            /\ ratioBelow(missed, window, cc.Alerts.Window)
         THEN [alarm |-> FALSE, active |-> -1,
               calls |-> mkCall(percentMsg(cc), FALSE, <<Valcons, "percent">>)]
         ELSE [alarm |-> alarm, active |-> 0, calls |-> NoCalls]

\* alert.go:404-428, one node of the range loop; the clear branch passes
\* resolved = false
nodeStep(alarm, cc, node, down, downSince) ==
    IF /\ node.AlertIfDown /\ down /\ ~alarm /\ downSince # "zero"
       /\ downSince = "long"
    THEN [alarm |-> TRUE, active |-> 1,
          calls |-> mkCall(nodeDownMsg(cc, node), FALSE, node.Url)]
    ELSE IF alarm /\ downSince = "zero"
         THEN [alarm |-> FALSE, active |-> -1,
               calls |-> mkCall(nodeDownMsg(cc, node), FALSE, node.Url)]
         ELSE [alarm |-> alarm, active |-> 0, calls |-> NoCalls]

\* the consecutive-miss scenario: threshold 5 and these samples, tick by tick
Scenario == <<0, 2, 4, 5, 6, 7, 5, 4>>
ScenOff == [pos |-> -1, calls |-> << >>]

\* progress of the scenario after a tick that sampled stat and made calls
scenAfter(sc, stat, calls) ==
    IF td = ScenarioConfig /\ sc.pos >= 0 /\ sc.pos < Len(Scenario)
       /\ Scenario[sc.pos + 1] = stat
    THEN [pos |-> sc.pos + 1,
          calls |-> sc.calls \o
                    [i \in 1..Len(calls) |->
                        [tick |-> sc.pos + 1, resolved |-> calls[i].resolved]]]
    ELSE ScenOff

\* the place of a condition in the order of the loop body: no-RPC, stalled,
\* consecutive-miss, percentage, then the nodes in the order of cc.Nodes
rankOf(cc, cond, url) ==
    CASE cond \in {"wait", "noRPC"} -> 1
      [] cond = "stalled" -> 2
      [] cond = "consecutive" -> 3
      [] cond = "percentage" -> 4
      [] cond = "node" -> 4 + (CHOOSE i \in 1..Len(cc.Nodes) : cc.Nodes[i].Url = url)

NoTag == <<-1, 0>>
OrderOff == [tick |-> -1, prev |-> NoTag, last |-> NoTag, chan |-> << >>]
OrderOn == [tick |-> 0, prev |-> NoTag, last |-> NoTag, chan |-> << >>]

\* the record of the order of the alert calls: a tick begins with the no-RPC
\* step; a call is tagged with its tick and the place of its condition
orderAfter(o, cc, cond, url, calls) ==
    IF o.tick = -1 THEN o
    ELSE LET t == IF cond = "noRPC" THEN o.tick + 1 ELSE o.tick
             tag == <<t, rankOf(cc, cond, url)>>
         IN  IF calls = NoCalls
             THEN [o EXCEPT !.tick = t]
             ELSE [tick |-> t, prev |-> o.last, last |-> tag,
                   chan |-> Append(o.chan, tag)]

\* what a step of watch leaves behind: the calls it makes and the record of it
stepDone(cond, url, message, sample, was, r) ==
    /\ order' = orderAfter(order, td.Chains[WatchChain], cond, url, r.calls)
    /\ obs' = [cond |-> cond, node |-> url, sample |-> sample, was |-> was,
               calls |-> r.calls,
               prev |-> <<WatchChain, message>> \in lastTrigger]
    /\ activeAlerts' = activeAlerts + r.active
    /\ IF r.calls = NoCalls
       THEN UNCHANGED alertVars
       ELSE alert(WatchChain, r.calls[1].message, r.calls[1].severity,
                  r.calls[1].resolved, r.calls[1].id)

\* alert.go:276-299: one turn of the wait loop. The guard and the argument
\* &cc.valInfo.Valcons read cc.valInfo separately.
WatchWait ==
    /\ pc = "wait"
    /\ LET cc == td.Chains[WatchChain]
       IN \E v \in ValInfoStates :
           IF v \in {"nil", "not connected"}
           THEN \E n \in BOOLEAN :
                  IF cc.Alerts.AlertIfNoServers /\ ~noNodes /\ n
                  THEN /\ noNodes' = TRUE
                       /\ \E v2 \in ValInfoStates :
                            IF v2 = "nil"
                            THEN /\ pc' = "panic"
                                 /\ obs' = [cond |-> "wait", node |-> "",
                                            sample |-> <<v, n, v2>>, was |-> noNodes,
                                            calls |-> NoCalls, prev |-> FALSE]
                                 /\ UNCHANGED alertVars
                                 /\ UNCHANGED <<activeAlerts, order>>
                            ELSE /\ pc' = "wait"
                                 /\ stepDone("wait", "", noRPCMsg(cc), <<v, n, v2>>, noNodes,
                                             [active |-> 0,
                                              calls |-> mkCall(noRPCMsg(cc), FALSE, Valcons)])
                  ELSE /\ pc' = "wait"
                       /\ UNCHANGED noNodes
                       /\ stepDone("wait", "", noRPCMsg(cc), <<v, n>>, noNodes,
                                   [active |-> 0, calls |-> NoCalls])
           ELSE /\ pc' = "noRPC"
                /\ UNCHANGED noNodes
                /\ stepDone("wait", "", noRPCMsg(cc), <<v>>, noNodes,
                            [active |-> 0, calls |-> NoCalls])
    /\ UNCHANGED <<td, sentAlarms, hist, lastCall, lastDispatch>>
    /\ UNCHANGED callVars
    /\ UNCHANGED <<lastBlockAlarm, missedAlarm, pctAlarm, nodeAlarms, nodeIdx, scen>>

\* alert.go:302-323
WatchNoRPC ==
    /\ pc = "noRPC"
    /\ LET cc == td.Chains[WatchChain]
       IN \E n \in BOOLEAN :
            LET r == noRPCStep(noNodes, cc, n)
            IN /\ noNodes' = r.alarm
               /\ stepDone("noRPC", "", noRPCMsg(cc), <<n>>, noNodes, r)
    /\ pc' = "stalled"
    /\ UNCHANGED <<td, sentAlarms, hist, lastCall, lastDispatch>>
    /\ UNCHANGED callVars
    /\ UNCHANGED <<lastBlockAlarm, missedAlarm, pctAlarm, nodeAlarms, nodeIdx, scen>>

\* alert.go:325-346
WatchStalled ==
    /\ pc = "stalled"
    /\ LET cc == td.Chains[WatchChain]
       IN \E t \in BlockTimes :
            LET r == stalledStep(lastBlockAlarm, cc, t)
            IN /\ lastBlockAlarm' = r.alarm
               /\ stepDone("stalled", "", stalledMsg(cc), <<t>>, lastBlockAlarm, r)
    /\ pc' = "consecutive"
    /\ UNCHANGED <<td, sentAlarms, hist, lastCall, lastDispatch>>
    /\ UNCHANGED callVars
    /\ UNCHANGED <<noNodes, missedAlarm, pctAlarm, nodeAlarms, nodeIdx, scen>>

\* alert.go:348-373
WatchConsecutive ==
    /\ pc = "consecutive"
    /\ LET cc == td.Chains[WatchChain]
       IN \E stat \in 0..MaxMiss :
            LET r == consecutiveStep(missedAlarm, cc, stat)
            IN /\ missedAlarm' = r.alarm
               /\ scen' = scenAfter(scen, stat, r.calls)
               /\ stepDone("consecutive", "", consecutiveMsg(cc), <<stat>>, missedAlarm, r)
    /\ pc' = "percentage"
    /\ UNCHANGED <<td, sentAlarms, hist, lastCall, lastDispatch>>
    /\ UNCHANGED callVars
    /\ UNCHANGED <<noNodes, lastBlockAlarm, pctAlarm, nodeAlarms, nodeIdx>>

\* a seeded bug: the consecutive-miss check is made again after the percentage
\* check
WatchPercentage_ThenConsecutive ==
    /\ pc = "percentage"
    /\ LET cc == td.Chains[WatchChain]
       IN /\ \E s \in PctSamples :
               LET r == percentageStep(pctAlarm, cc, s[1], s[2])
               IN /\ pctAlarm' = r.alarm
                  /\ stepDone("percentage", "", percentMsg(cc), s, pctAlarm, r)
          /\ pc' = IF obs.cond = "consecutive" THEN "consecutive"
                   ELSE IF Len(cc.Nodes) = 0 THEN "noRPC" ELSE "nodes"
    /\ UNCHANGED <<td, sentAlarms, hist, lastCall, lastDispatch>>
    /\ UNCHANGED callVars
    /\ UNCHANGED <<noNodes, lastBlockAlarm, missedAlarm, nodeAlarms, nodeIdx, scen>>

\* alert.go:375-401
WatchPercentage ==
    /\ pc = "percentage"
    /\ LET cc == td.Chains[WatchChain]
       IN /\ \E s \in PctSamples :
               LET r == percentageStep(pctAlarm, cc, s[1], s[2])
               IN /\ pctAlarm' = r.alarm
                  /\ stepDone("percentage", "", percentMsg(cc), s, pctAlarm, r)
          /\ pc' = IF Len(cc.Nodes) = 0 THEN "noRPC" ELSE "nodes"
    /\ UNCHANGED <<td, sentAlarms, hist, lastCall, lastDispatch>>
    /\ UNCHANGED callVars
    /\ UNCHANGED <<noNodes, lastBlockAlarm, missedAlarm, nodeAlarms, nodeIdx, scen>>

\* alert.go:404-429, one iteration of the range loop, and after the last one
\* the metrics of alert.go:431-440 and the next tick
WatchNodes ==
    /\ pc = "nodes"
    /\ LET cc == td.Chains[WatchChain]
           node == cc.Nodes[nodeIdx]
       IN /\ \E down \in BOOLEAN, since \in DownSinces :
               LET r == nodeStep(nodeAlarms[node.Url], cc, node, down, since)
               IN /\ nodeAlarms' = [nodeAlarms EXCEPT ![node.Url] = r.alarm]
                  /\ stepDone("node", node.Url, nodeDownMsg(cc, node), <<down, since>>,
                              nodeAlarms[node.Url], r)
          /\ IF nodeIdx < Len(cc.Nodes)
             THEN nodeIdx' = nodeIdx + 1 /\ pc' = "nodes"
             ELSE nodeIdx' = 1 /\ pc' = "noRPC"
    /\ UNCHANGED <<td, sentAlarms, hist, lastCall, lastDispatch>>
    /\ UNCHANGED callVars
    /\ UNCHANGED <<noNodes, lastBlockAlarm, missedAlarm, pctAlarm, scen>>

-----------------------------------------------------------------------------
(* Goroutines in shouldNotify and in the wrappers, alert.go:52-209, step by
   step: the wrapper's test of its flag, notifyMux.Lock, the read of the
   selected map, the write to it with the deferred Unlock, the delivery call
   and the return. One goroutine runs per message taken from alertChan. *)

NoHolder == "none"
Idle == [pc |-> "idle"]

\* what the delivery part of a wrapper can come to
Outcomes(dest) ==
    CASE dest = pd -> {"ok", "invalid pagerduty key", "error"}
      [] dest = di -> {"ok", "error", "non-success status"}
      [] dest = tg -> {"ok", "invalid credentials", "error"}

\* a seeded bug: the wrappers go on whatever their flag says
sinkFlag_Always(msg, dest) == TRUE

\* the flag a wrapper tests first: msg.pd, msg.disc or msg.tg
sinkFlag(msg, dest) ==
    CASE dest = pd -> msg.pd
      [] dest = di -> msg.disc
      [] dest = tg -> msg.tg

\* a seeded bug: Lock does not wait for the holder
muxFree_NoWait(m) == TRUE

\* notifyMux.Lock() returns only when no goroutine holds the mutex
muxFree(m) == m = NoHolder

\* a seeded bug: the mutex is still held when shouldNotify has returned
muxAfterReturn_Held(g) == g

\* defer notifyMux.Unlock(): the mutex is free once shouldNotify has returned
muxAfterReturn(g) == NoHolder

\* the three branches of shouldNotify on the value seen read from the map
shouldNotifyWrite(s, msg, dest, seen) ==
    IF seen /\ ~msg.resolved THEN s
    ELSE IF seen /\ msg.resolved
         THEN [s EXCEPT ![whichMap(dest)] = @ \ {msg.message}]
         ELSE [s EXCEPT ![whichMap(dest)] = @ \cup {msg.message}]

\* a seeded bug: a failed delivery takes the mark back
registryAfterDelivery_Rollback(s, msg, dest, outcome) ==
    IF outcome # "ok" /\ ~msg.resolved
    THEN [s EXCEPT ![whichMap(dest)] = @ \ {msg.message}]
    ELSE s

\* the delivery part of a wrapper writes none of the maps, whatever its outcome
registryAfterDelivery(s, msg, dest, outcome) == s

goroutineRest ==
    <<td, currentAlarms, alertChan, lastTrigger, lastAlert, lastDispatch, hist,
      lastCall, lastGet, order>>

\* a goroutine calls notifyPagerduty, notifyDiscord or notifyTg; the wrapper
\* returns nil at once when its flag is off
notifyEnter(g) ==
    /\ gor[g].pc = "idle"
    /\ \E d \in notifyDest, m \in SinkMessages, r \in BOOLEAN, b \in BOOLEAN :
         LET msg == [message |-> m, resolved |-> r,
                     pd |-> (d = pd) = b, disc |-> (d = di) = b, tg |-> (d = tg) = b]
         IN  /\ UNCHANGED <<sentAlarms, notifyMux, keyLog>>
             /\ gor' = [gor EXCEPT ![g] =
                    IF ~sinkFlag(msg, d)
                    THEN [pc |-> "returned", wrapper |-> TRUE, dest |-> d, msg |-> msg,
                          called |-> FALSE, ret |-> FALSE, delivery |-> "none",
                          attempts |-> 0,
                          changed |-> sentAlarms' # sentAlarms,
                          afterFailed |-> FALSE, markedAfter |-> FALSE]
                    ELSE [pc |-> "lock", wrapper |-> TRUE, dest |-> d, msg |-> msg]]
    /\ UNCHANGED goroutineRest
    /\ UNCHANGED watchVars

\* a goroutine calls shouldNotify itself
shouldNotifyEnter(g) ==
    /\ gor[g].pc = "idle"
    /\ \E d \in notifyDest, m \in TestMessages, r \in BOOLEAN :
         gor' = [gor EXCEPT ![g] = [pc |-> "lock", wrapper |-> FALSE, dest |-> d,
                                    msg |-> [message |-> m, resolved |-> r]]]
    /\ UNCHANGED <<sentAlarms, notifyMux, keyLog>>
    /\ UNCHANGED goroutineRest
    /\ UNCHANGED watchVars

\* alert.go:53 notifyMux.Lock()
muxLock(g) ==
    /\ gor[g].pc = "lock"
    /\ muxFree(notifyMux)
    /\ notifyMux' = g
    /\ gor' = [gor EXCEPT ![g].pc = "read"]
    /\ UNCHANGED <<sentAlarms, keyLog>>
    /\ UNCHANGED goroutineRest
    /\ UNCHANGED watchVars

\* alert.go:55-68: the map is selected and whichMap[msg.message] is read
mapRead(g) ==
    /\ gor[g].pc = "read"
    /\ gor' = [gor EXCEPT ![g] =
                  [pc |-> "write", wrapper |-> gor[g].wrapper, dest |-> gor[g].dest,
                   msg |-> gor[g].msg,
                   seen |-> gor[g].msg.message \in sentAlarms[whichMap(gor[g].dest)]]]
    /\ UNCHANGED <<sentAlarms, notifyMux, keyLog>>
    /\ UNCHANGED goroutineRest
    /\ UNCHANGED watchVars

\* alert.go:68-79: the branch taken on the value read, the deferred Unlock and
\* the return; a wrapper told false returns nil, told true goes on to deliver
mapWrite(g) ==
    /\ gor[g].pc = "write"
    /\ LET me == gor[g]
           k == <<me.dest, me.msg.message>>
           ret == ~(me.seen /\ ~me.msg.resolved)
       IN  /\ sentAlarms' = shouldNotifyWrite(sentAlarms, me.msg, me.dest, me.seen)
           /\ notifyMux' = muxAfterReturn(g)
           /\ keyLog' = IF me.msg.resolved THEN keyLog \ {k} ELSE keyLog
           /\ gor' = [h \in DOMAIN gor |->
                        IF h = g
                        THEN [pc |-> IF me.wrapper /\ ret THEN "deliver" ELSE "returned",
                              wrapper |-> me.wrapper, dest |-> me.dest, msg |-> me.msg,
                              called |-> TRUE, ret |-> ret, delivery |-> "none",
                              attempts |-> 0,
                              changed |-> sentAlarms' # sentAlarms,
                              afterFailed |-> k \in keyLog,
                              markedAfter |->
                                  me.msg.message \in sentAlarms'[whichMap(me.dest)]]
                        ELSE gor[h]]
    /\ UNCHANGED goroutineRest
    /\ UNCHANGED watchVars

\* the delivery part of a wrapper, alert.go:90-121, 160-177, 188-208: one
\* attempt; the error, if any, is logged and returned
deliver(g) ==
    /\ gor[g].pc = "deliver"
    /\ \E outcome \in Outcomes(gor[g].dest) :
         LET me == gor[g]
             k == <<me.dest, me.msg.message>>
         IN  /\ sentAlarms' = registryAfterDelivery(sentAlarms, me.msg, me.dest, outcome)
             /\ keyLog' = IF outcome # "ok" /\ ~me.msg.resolved /\ me.markedAfter
                             /\ me.msg.message \in sentAlarms[whichMap(me.dest)]
                          THEN keyLog \cup {k}
                          ELSE keyLog
             /\ gor' = [gor EXCEPT ![g].pc = "returned", ![g].delivery = outcome,
                                    ![g].attempts = @ + 1]
    /\ UNCHANGED notifyMux
    /\ UNCHANGED goroutineRest
    /\ UNCHANGED watchVars

\* the goroutine is done with its message and takes the next one
goroutineNext(g) ==
    /\ gor[g].pc = "returned"
    /\ gor' = [gor EXCEPT ![g] = Idle]
    /\ UNCHANGED <<sentAlarms, notifyMux, keyLog>>
    /\ UNCHANGED goroutineRest
    /\ UNCHANGED watchVars

-----------------------------------------------------------------------------
(* Specifications *)

NodeUrls == {"http://node1:26657", "http://node2:26657"}

InitAll(configs, o, gs) ==
    /\ td \in configs
    /\ order = o
    /\ gor = [g \in gs |-> Idle]
    /\ notifyMux = NoHolder
    /\ keyLog = {}
    /\ lastGet = NoGet
    /\ sentAlarms = EmptyRegistry
    /\ currentAlarms = EmptyAlarms
    /\ alertChan = << >>
    /\ pc = "wait"
    /\ noNodes = FALSE
    /\ lastBlockAlarm = FALSE
    /\ missedAlarm = FALSE
    /\ pctAlarm = FALSE
    /\ nodeAlarms = [u \in NodeUrls |-> FALSE]
    /\ activeAlerts = 0
    /\ nodeIdx = 1
    /\ hist = [k \in notifyDest \X TestMessages |-> << >>]
    /\ lastCall = NoCall
    /\ lastTrigger = {}
    /\ lastAlert = NoAlert
    /\ lastDispatch = NoDispatch
    /\ obs = [cond |-> "none", node |-> "", sample |-> << >>, was |-> FALSE,
              calls |-> NoCalls, prev |-> FALSE]
    /\ scen = [pos |-> 0, calls |-> << >>]

InitWith(configs) == InitAll(configs, OrderOff, {})

\* the chain monitor of WatchChain, the alert factory and the consumer
Init == InitWith({FullConfig, ScenarioConfig, DeliverConfig})

Next ==
    \/ WatchWait
    \/ WatchNoRPC
    \/ WatchStalled
    \/ WatchConsecutive
    \/ WatchPercentage
    \/ WatchNodes
    \/ Dispatch

Spec == Init /\ [][Next]_vars

\* shouldNotify called directly
InitDedup == InitWith({FullConfig})

NextDedup == CallShouldNotify

SpecDedup == InitDedup /\ [][NextDedup]_vars

\* alert called directly, with the consumer
InitAlert == InitWith({SinksConfig, MixedConfig})

NextAlert ==
    \/ CallAlert
    \/ Dispatch

SpecAlert == InitAlert /\ [][NextAlert]_vars

\* alert and getAlarms called directly, with the consumer
InitDash == InitWith({FullConfig, HiddenConfig})

NextDash ==
    \/ CallAlert
    \/ CallGetAlarms
    \/ Dispatch

SpecDash == InitDash /\ [][NextDash]_vars

\* two goroutines, each handing one message after another to a wrapper
InitSink == InitAll({FullConfig}, OrderOff, {"g1", "g2"})

NextSink ==
    \/ \E g \in DOMAIN gor : notifyEnter(g)
    \/ \E g \in DOMAIN gor : muxLock(g)
    \/ \E g \in DOMAIN gor : mapRead(g)
    \/ \E g \in DOMAIN gor : mapWrite(g)
    \/ \E g \in DOMAIN gor : deliver(g)
    \/ \E g \in DOMAIN gor : goroutineNext(g)

SpecSink == InitSink /\ [][NextSink]_vars

\* three goroutines, each making one call of shouldNotify
InitRace == InitAll({FullConfig}, OrderOff, {"g1", "g2", "g3"})

NextRace ==
    \/ \E g \in DOMAIN gor : shouldNotifyEnter(g)
    \/ \E g \in DOMAIN gor : muxLock(g)
    \/ \E g \in DOMAIN gor : mapRead(g)
    \/ \E g \in DOMAIN gor : mapWrite(g)

SpecRace == InitRace /\ [][NextRace]_vars

\* the chain monitor with the order of its alert calls recorded, for MaxTicks
\* ticks of the steady-state loop
InitOrder == InitAll({FullConfig}, OrderOn, {})

WatchTick == order.tick < MaxTicks /\ WatchNoRPC

NextOrder ==
    \/ WatchWait
    \/ WatchTick
    \/ WatchStalled
    \/ WatchConsecutive
    \/ WatchPercentage
    \/ WatchNodes
    \/ Dispatch

SpecOrder == InitOrder /\ [][NextOrder]_vars

-----------------------------------------------------------------------------
(* Claims about shouldNotify *)

\* the key was unmarked when call i of history h was made
UnmarkedBefore(h, i) == i = 1 \/ ~h[i-1].marked

\* calls i..j of history h are all triggers (no resolution in between)
AllTriggers(h, i, j) == \A k \in i..j : ~h[k].resolved

\* C1: from an unmarked key, the first resolved=false call for (m, d) returns
\* true and every further resolved=false call returns false until a
\* resolved=true call for (m, d) occurs.
C1_DedupIdempotence ==
    \A k \in DOMAIN hist :
        \A i \in 1..Len(hist[k]) : \A j \in i..Len(hist[k]) :
            (UnmarkedBefore(hist[k], i) /\ AllTriggers(hist[k], i, j))
                => /\ hist[k][i].ret
                   /\ (j > i => ~hist[k][j].ret)

C1_Witness ==
    \E k \in DOMAIN hist :
        /\ Len(hist[k]) >= 3
        /\ AllTriggers(hist[k], 1, 3)
        /\ hist[k][1].ret /\ ~hist[k][2].ret /\ ~hist[k][3].ret

\* C2: trigger, resolve, resolve on an unmarked key returns true, true, true;
\* the key is unmarked after the first resolve and stays unmarked after the
\* second.
C2_ResolutionEdge ==
    \A k \in DOMAIN hist :
        \A i \in 1..Len(hist[k]) :
            (/\ i + 2 <= Len(hist[k])
             /\ UnmarkedBefore(hist[k], i)
             /\ ~hist[k][i].resolved
             /\ hist[k][i+1].resolved
             /\ hist[k][i+2].resolved)
                => /\ hist[k][i].ret /\ hist[k][i+1].ret /\ hist[k][i+2].ret
                   /\ ~hist[k][i+1].marked
                   /\ ~hist[k][i+2].marked

\* an accepted trigger of history h that no later resolution follows
OpenTrigger(h) ==
    \E i \in 1..Len(h) :
        /\ ~h[i].resolved /\ h[i].ret
        /\ \A j \in (i+1)..Len(h) : ~h[j].resolved

\* C3: a key is present in a destination's map iff a resolved=false alert for
\* it was accepted on that destination and no resolved=true alert for it has
\* been processed since.
C3_RegistryInvariant ==
    \A d \in notifyDest, m \in TestMessages :
        (m \in DestMap(sentAlarms, d)) <=> OpenTrigger(hist[<<d, m>>])

\* the marker a single map holds after the calls of history h, replayed alone
RECURSIVE AloneMarked(_)
AloneMarked(h) ==
    IF h = << >> THEN FALSE
    ELSE LET was == AloneMarked(SubSeq(h, 1, Len(h) - 1))
             c == h[Len(h)]
         IN IF was /\ ~c.resolved THEN TRUE
            ELSE IF was /\ c.resolved THEN FALSE
            ELSE TRUE

\* the value call i of history h returns when the history is replayed alone
AloneRet(h, i) == ~(AloneMarked(SubSeq(h, 1, i - 1)) /\ ~h[i].resolved)

\* C4: a call shouldNotify(msg, d) changes only d's map, and what a
\* destination's map holds and what its calls return follow from the calls
\* made with that destination alone.
C4_CrossDestinationIndependence ==
    /\ lastCall # NoCall =>
           \A d \in notifyDest \ {lastCall.dest} :
               DestMap(sentAlarms, d) = DestMap(lastCall.before, d)
    /\ \A d \in notifyDest, m \in TestMessages :
           /\ (m \in DestMap(sentAlarms, d)) <=> AloneMarked(hist[<<d, m>>])
           /\ \A i \in 1..Len(hist[<<d, m>>]) :
                  hist[<<d, m>>][i].ret = AloneRet(hist[<<d, m>>], i)

C4_Witness ==
    /\ lastCall # NoCall
    /\ lastCall.dest = pd
    /\ lastCall.ret
    /\ lastCall.message \in DestMap(sentAlarms, pd)
    /\ lastCall.message \in DestMap(sentAlarms, tg)
    /\ lastCall.message \notin DestMap(sentAlarms, di)

-----------------------------------------------------------------------------
(* Claims about alert and the dashboard registry *)

\* the messages of chain c whose most recent alert call had resolved = false
LatestUnresolved(c) == {k[2] : k \in {q \in lastTrigger : q[1] = c}}

\* C5: for every chain, currentAlarms[chain] holds exactly the messages whose
\* most recent alert call for that (chain, message) had resolved = false, and
\* an alert call for one chain leaves every other chain's set as it was.
C5_DashboardConsistency ==
    /\ \A c \in Chains : currentAlarms[c].keys = LatestUnresolved(c)
    /\ lastAlert # NoAlert =>
           \A c \in Chains \ {lastAlert.chain} : currentAlarms[c] = lastAlert.before[c]

C5_Witness ==
    /\ lastAlert # NoAlert
    /\ lastAlert.resolved
    /\ lastAlert.message \in lastAlert.before[lastAlert.chain].keys
    /\ lastAlert.message \notin currentAlarms[lastAlert.chain].keys
    /\ \E c \in Chains \ {lastAlert.chain} : currentAlarms[c].keys # {}

-----------------------------------------------------------------------------
(* Claims about the hysteresis of watch *)

\* the calls of the latest step that carry message m and resolved flag r
ObsCalls(m, r) ==
    {i \in 1..Len(obs.calls) : obs.calls[i].message = m /\ obs.calls[i].resolved = r}

\* the latest step made exactly one alert call, for message m with resolved flag r
OneCall(m, r) == Len(obs.calls) = 1 /\ ObsCalls(m, r) = {1}

\* C6: with consecutive alerts enabled and threshold T, watch calls alert with
\* resolved=false for the consecutive-miss message exactly at the ticks whose
\* sample is >= T while missedAlarm was false, and with resolved=true exactly
\* at the ticks whose sample is < T while missedAlarm was true; no other step
\* calls alert for that message; and for T = 5 the samples
\* 0,2,4,5,6,7,5,4 give one trigger (4th tick) and one resolve (8th tick) and
\* leave activeAlerts at its initial value 0.
C6_ConsecutiveHysteresis ==
    LET cc == td.Chains[WatchChain]
        T == cc.Alerts.ConsecutiveMissed
        m == consecutiveMsg(cc)
    IN  /\ (obs.cond = "consecutive" /\ cc.Alerts.ConsecutiveAlerts) =>
               /\ (ObsCalls(m, FALSE) # {}) <=> (obs.sample[1] >= T /\ ~obs.was)
               /\ (ObsCalls(m, TRUE) # {}) <=> (obs.sample[1] < T /\ obs.was)
               /\ Len(obs.calls) <= 1
               /\ missedAlarm = (obs.sample[1] >= T)
        /\ obs.cond # "consecutive" => ObsCalls(m, FALSE) \cup ObsCalls(m, TRUE) = {}
        /\ (scen.pos = Len(Scenario) /\ T = 5) =>
               /\ scen.calls = <<[tick |-> 4, resolved |-> FALSE],
                                 [tick |-> 8, resolved |-> TRUE]>>
               /\ activeAlerts = 0

C6_Witness ==
    /\ scen.pos = Len(Scenario)
    /\ obs.cond = "consecutive"
    /\ obs.sample = <<4>>
    /\ OneCall(consecutiveMsg(td.Chains[WatchChain]), TRUE)

\* C7: a node with alert-on-down that is down for longer than the minimum and
\* not yet alarmed gets one trigger call; while it is alarmed and its
\* down-since is not zero no call is made for it; once its down-since is zero
\* exactly one call with resolved=true for the node's message is made.
C7_NodeDownHysteresis ==
    obs.cond = "node" =>
        LET cc == td.Chains[WatchChain]
            node == CHOOSE n \in {cc.Nodes[i] : i \in 1..Len(cc.Nodes)} : n.Url = obs.node
            m == nodeDownMsg(cc, node)
            down == obs.sample[1]
            since == obs.sample[2]
        IN  /\ (node.AlertIfDown /\ down /\ since = "long" /\ ~obs.was) => OneCall(m, FALSE)
            /\ (obs.was /\ since # "zero") => obs.calls = NoCalls
            /\ (obs.was /\ since = "zero") => OneCall(m, TRUE)

\* C8: with percentage alerts enabled, one resolved=false call when the ratio
\* exceeds the percentage while pctAlarm is false; no call while pctAlarm is
\* set and the ratio is not below the percentage; and when the ratio is below
\* it while pctAlarm is set, one resolved=true call for the percentage message
\* and pctAlarm cleared.
C8_PercentageHysteresis ==
    LET cc == td.Chains[WatchChain]
        m == percentMsg(cc)
    IN  (obs.cond = "percentage" /\ cc.Alerts.PercentageAlerts) =>
            LET above == ratioAbove(obs.sample[1], obs.sample[2], cc.Alerts.Window)
                below == ratioBelow(obs.sample[1], obs.sample[2], cc.Alerts.Window)
            IN  /\ (above /\ ~obs.was) => OneCall(m, FALSE)
                /\ (obs.was /\ ~below) => obs.calls = NoCalls
                /\ (obs.was /\ below) => (OneCall(m, TRUE) /\ ~pctAlarm)

\* C9: the alert calls made for one condition alternate resolved=false,
\* resolved=true, ..., starting with resolved=false: a call has resolved=true
\* exactly when the previous call for its condition had resolved=false.
C9_TriggerResolveAlternation ==
    \A i \in 1..Len(obs.calls) : obs.calls[i].resolved = obs.prev

\* C10: every message the watch loop hands to alert (one per hysteresis
\* transition) is accepted by shouldNotify on every destination enabled for it.
C10_ExactlyOncePerTransition ==
    lastDispatch.called \subseteq lastDispatch.delivered

-----------------------------------------------------------------------------
(* Claims about getAlarms and the activeAlerts counter *)

\* C11: getAlarms(chain) returns the empty string whenever hide-logs is set,
\* for every chain and every content of the registry; when it is not set the
\* result has exactly one line per message of currentAlarms[chain] (none when
\* the chain has no entry); and the call never modifies the registry.
C11_GetAlarmsGatedReadOnly ==
    lastGet # NoGet =>
        /\ td.HideLogs => lastGet.result = << >>
        /\ ~td.HideLogs =>
              /\ Len(lastGet.result) = Cardinality(lastGet.keys)
              /\ {lastGet.result[i] : i \in DOMAIN lastGet.result}
                     = {alarmLine(k) : k \in lastGet.keys}
        /\ ~lastGet.changed

\* getAlarms was called with hide-logs set on a chain with two alarms
C11_Witness ==
    /\ lastGet # NoGet
    /\ td.HideLogs
    /\ Cardinality(lastGet.keys) = 2

Alarmed(b) == IF b THEN 1 ELSE 0

NodesAlarmed == Cardinality({u \in NodeUrls : nodeAlarms[u]})

\* C12: at every tick boundary activeAlerts is its initial value plus the
\* number of conditions alarmed among all five: no-RPC, stalled,
\* consecutive-miss, percentage and each node's node-down.
C12_ActiveAlertsTracksEveryCondition ==
    pc = "noRPC" =>
        activeAlerts = Alarmed(noNodes) + Alarmed(lastBlockAlarm) + Alarmed(missedAlarm)
                         + Alarmed(pctAlarm) + NodesAlarmed

\* C20: at every tick boundary activeAlerts is its initial value (0) plus the
\* number of true flags among missedAlarm, pctAlarm and the entries of
\* nodeAlarms; it is never negative and never above 2 plus the number of nodes.
C20_ActiveAlertsCounter ==
    /\ pc = "noRPC" =>
          activeAlerts = Alarmed(missedAlarm) + Alarmed(pctAlarm) + NodesAlarmed
    /\ activeAlerts >= 0
    /\ activeAlerts <= 2 + Len(td.Chains[WatchChain].Nodes)

\* a tick ends with the consecutive-miss, percentage and both node alarms set
C20_Witness ==
    /\ pc = "noRPC"
    /\ obs.cond = "node"
    /\ missedAlarm /\ pctAlarm /\ NodesAlarmed = 2
    /\ activeAlerts = 4

-----------------------------------------------------------------------------
(* Claims about the wrappers and the mutex *)

\* the goroutines that are past shouldNotify's return or past their wrapper's
Past(pcs) == {g \in DOMAIN gor : gor[g].pc \in pcs}

\* C13: when shouldNotify has accepted a trigger and the delivery then fails,
\* the message stays marked in that destination's map; the wrapper makes one
\* delivery attempt only; a later identical trigger is suppressed; and a later
\* resolution is accepted, goes to delivery and clears the mark.
C13_FailedDeliveryKeepsMark ==
    /\ \A k \in keyLog : k[2] \in sentAlarms[whichMap(k[1])]
    /\ \A g \in Past({"deliver", "returned"}) :
          /\ gor[g].attempts <= 1
          /\ gor[g].afterFailed =>
                IF gor[g].msg.resolved
                THEN /\ gor[g].ret
                     /\ ~gor[g].markedAfter
                     /\ gor[g].pc = "returned" => gor[g].attempts = 1
                ELSE /\ ~gor[g].ret
                     /\ gor[g].attempts = 0

\* after a failed delivery of a trigger its resolution has been delivered
C13_Witness ==
    \E g \in Past({"returned"}) :
        /\ gor[g].afterFailed
        /\ gor[g].msg.resolved
        /\ gor[g].delivery = "ok"

\* C14: a wrapper whose enable flag is false on the message is a no-op: it
\* does not call shouldNotify, leaves the three maps unchanged and attempts no
\* delivery, whatever the text, the resolved flag and the registry.
C14_DisabledSinkNoOp ==
    \A g \in Past({"returned"}) :
        LET me == gor[g]
            flag == \/ me.dest = pd /\ me.msg.pd
                    \/ me.dest = di /\ me.msg.disc
                    \/ me.dest = tg /\ me.msg.tg
        IN  (me.wrapper /\ ~flag) =>
                /\ ~me.called
                /\ ~me.changed
                /\ me.delivery = "none" /\ me.attempts = 0

\* notifyTg has returned for a trigger with msg.tg false whose text is not
\* marked for Telegram while the other two maps hold it
C14_Witness ==
    \E g \in Past({"returned"}) :
        /\ gor[g].wrapper /\ gor[g].dest = tg /\ ~gor[g].msg.tg /\ ~gor[g].msg.resolved
        /\ sentAlarms.sentTgAlarms = {}
        /\ sentAlarms.sentPdAlarms # {} /\ sentAlarms.sentDAlarms # {}

\* C15: notifyMux is held only across shouldNotify's check-and-mark: a
\* goroutine inside a wrapper's delivery step does not hold it, so another
\* goroutine's shouldNotify can complete meanwhile.
C15_MutexOnlyAcrossCheckAndMark ==
    /\ \A g \in Past({"deliver"}) : notifyMux # g
    /\ notifyMux # NoHolder => gor[notifyMux].pc \in {"read", "write"}

\* both goroutines are in a delivery step: the second passed shouldNotify
\* while the first was delivering
C15_Witness == Cardinality(Past({"deliver"})) = 2

\* the goroutines whose call of shouldNotify for destination and text k,
\* resolved or not, has returned
ReturnedOn(k, resolved) ==
    {g \in Past({"returned"}) :
        /\ <<gor[g].dest, gor[g].msg.message>> = k
        /\ gor[g].msg.resolved = resolved}

\* C18: of the trigger calls that goroutines make concurrently for one text
\* and one destination, starting from an unmarked key, exactly one returns
\* true and the others false, in every interleaving and whatever calls are
\* made for other destinations or other texts.
C18_ConcurrentTriggersOneAccepted ==
    \A k \in notifyDest \X TestMessages :
        (ReturnedOn(k, TRUE) = {} /\ ReturnedOn(k, FALSE) # {}) =>
            Cardinality({g \in ReturnedOn(k, FALSE) : gor[g].ret}) = 1

\* three goroutines have returned from a trigger call for the same key
C18_Witness ==
    \E k \in notifyDest \X TestMessages : Cardinality(ReturnedOn(k, FALSE)) = 3

-----------------------------------------------------------------------------
(* Claims about the wait loop, the suppression rule and the order of a tick *)

\* C16: the monitor never crashes while it waits for the validator's identity,
\* cc.valInfo being nil included: it raises one no-RPC trigger and keeps
\* waiting.
C16_WaitLoopNeverCrashes ==
    /\ pc # "panic"
    /\ (obs.cond = "wait" /\ obs.calls # NoCalls) =>
          (pc = "wait" /\ ~obs.was /\ noNodes /\ Len(obs.calls) = 1)

\* C17: shouldNotify returns false exactly for a trigger that follows an
\* accepted trigger of the same text and destination with no resolution in
\* between; every resolution returns true, and so does a trigger that was
\* never made before, was last made before a resolution, or follows
\* resolutions only.
C17_SuppressionOnlyOfRepeatedTriggers ==
    \A k \in DOMAIN hist :
        \A i \in 1..Len(hist[k]) :
            hist[k][i].ret =
                ~(~hist[k][i].resolved /\ OpenTrigger(SubSeq(hist[k], 1, i - 1)))

\* (tick, place) a comes before (tick, place) b
TagLess(a, b) == a[1] < b[1] \/ (a[1] = b[1] /\ a[2] < b[2])

\* the place in the loop body of the condition that a message text belongs to
msgRank(cc, message) ==
    CASE message = noRPCMsg(cc) -> 1
      [] message = stalledMsg(cc) -> 2
      [] message = consecutiveMsg(cc) -> 3
      [] message = percentMsg(cc) -> 4
      [] OTHER -> 4 + (CHOOSE i \in 1..Len(cc.Nodes) :
                           message = nodeDownMsg(cc, cc.Nodes[i]))

====
